---- MODULE Spec2Model ----
(***************************************************************************)
(* Model of NeuroML/HumanCell/postprocess_cell.py: post_process_cell loads *)
(* a morphology-only cell, classifies its filament segment groups with     *)
(* four static index tables, attaches the biophysical properties and       *)
(* writes <cellname>.cell.nml.                                             *)
(*                                                                         *)
(* Segment-group ids are sequences of one-character strings, so that       *)
(* str.startswith, str.split and int are computed and not assumed.         *)
(* Literals that the script only passes through (conductances, reversal    *)
(* potentials, hrefs, expressions) are strings.                            *)
(***************************************************************************)
EXTENDS Integers, Sequences, FiniteSets, TLC

(* ------------------------------ bounds --------------------------------- *)
\* longest segment-group list of an input morphology file
MaxGroups == 2
\* largest path length (micrometres) at which the expressions are evaluated
MaxP == 1000

(* --------------------------- identifiers ------------------------------- *)
Digits == <<"0", "1", "2", "3", "4", "5", "6", "7", "8", "9">>

US == "_"

FILAMENT == <<"f", "i", "l", "a", "m", "e", "n", "t">>

ALL == <<"a", "l", "l">>

SOMA_GROUP == <<"s", "o", "m", "a", "_", "g", "r", "o", "u", "p">>

DENDRITE_GROUP == <<"d", "e", "n", "d", "r", "i", "t", "e", "_", "g", "r", "o", "u", "p">>

AXON_GROUP == <<"a", "x", "o", "n", "_", "g", "r", "o", "u", "p">>

BASAL_DENDRITE_GROUP == <<"b", "a", "s", "a", "l", "_">> \o DENDRITE_GROUP

APICAL_DENDRITE_GROUP == <<"a", "p", "i", "c", "a", "l", "_">> \o DENDRITE_GROUP

\* the <docid> field of the generated ids (filament_100000042_0 in the source)
DOCID == <<"1", "0", "0", "0", "0", "0", "0", "4", "2">>

RECURSIVE Dec(_)
\* decimal digits of a natural number
Dec(n) == IF n < 10 THEN <<Digits[n + 1]>> ELSE Dec(n \div 10) \o <<Digits[(n % 10) + 1]>>

\* the id the morphology converter gives filament number n
FilamentId(n) == FILAMENT \o <<US>> \o DOCID \o <<US>> \o Dec(n)

(* --------------------- str.startswith / split / int -------------------- *)
startswith(s, prefix) ==
    /\ Len(s) >= Len(prefix)
    /\ SubSeq(s, 1, Len(prefix)) = prefix

RECURSIVE split_from(_, _, _)
\* fields of s from position k on, cur being the field collected so far
split_from(s, k, cur) ==
    IF k > Len(s) THEN <<cur>>
    ELSE IF s[k] = US THEN <<cur>> \o split_from(s, k + 1, <<>>)
    ELSE split_from(s, k + 1, Append(cur, s[k]))

split(s) == split_from(s, 1, <<>>)

DigitValue(c) == CHOOSE d \in 0..9 : Digits[d + 1] = c

IsDigit(c) == \E d \in 0..9 : Digits[d + 1] = c

\* int(str) succeeds on a non-empty run of decimal digits and raises
\* ValueError otherwise (ids carry no sign or blank)
int_ok(s) == Len(s) > 0 /\ \A k \in 1..Len(s) : IsDigit(s[k])

RECURSIVE int(_)
int(s) == IF Len(s) = 0 THEN 0
          ELSE 10 * int(SubSeq(s, 1, Len(s) - 1)) + DigitValue(s[Len(s)])

(* ---------------------------- index tables ----------------------------- *)
soma_segs == (0..6) \cup (9..10) \cup {14} \cup (18..21) \cup {32}

axonal_segs == {13}

apical_segs ==
    {7, 15, 16} \cup (24..27) \cup (37..44) \cup (59..66) \cup (85..94)
        \cup (109..114) \cup (123..128) \cup (131..210)

basal_segs ==
    {8, 11, 2, 17, 22, 23} \cup (28..31) \cup (33..36) \cup (45..58)
        \cup (67..84) \cup (95..108) \cup (115..122) \cup {129, 130}

\* the filament indices of the reconstructed cell: 0 .. the largest table entry
AllTabled == soma_segs \cup axonal_segs \cup apical_segs \cup basal_segs

LastIndex == CHOOSE m \in AllTabled : \A n \in AllTabled : n <= m

(* --------------------------- segment groups ---------------------------- *)
NewGroup(gid) == [id |-> gid, members |-> {}, includes |-> <<>>]

HasGroup(groups, gid) == \E k \in 1..Len(groups) : groups[k].id = gid

\* Cell.get_segment_group: the first group carrying the id
GroupIndex(groups, gid) ==
    CHOOSE k \in 1..Len(groups) :
        groups[k].id = gid /\ \A j \in 1..(k - 1) : groups[j].id # gid

\* Cell.add_segment_group: returns the existing group, or appends a new one
add_segment_group(groups, gid) ==
    IF HasGroup(groups, gid) THEN groups ELSE Append(groups, NewGroup(gid))

\* group.add(neuroml.Include, segment_groups=inc)
AddInclude(groups, gid, inc) ==
    LET k == GroupIndex(groups, gid)
    IN  [groups EXCEPT ![k].includes = Append(@, inc)]

RECURSIVE get_all_segments_in_group(_, _, _)
\* Cell.get_all_segments_in_group: own members and, recursively, those of
\* the included groups (depth bounds the recursion: includes form a DAG)
get_all_segments_in_group(groups, gid, depth) ==
    IF depth = 0 \/ ~HasGroup(groups, gid) THEN {}
    ELSE LET g == groups[GroupIndex(groups, gid)]
         IN  g.members \cup
             UNION {get_all_segments_in_group(groups, g.includes[k], depth - 1) :
                        k \in 1..Len(g.includes)}

Resolved(groups, gid) == get_all_segments_in_group(groups, gid, Len(groups))

\* Cell.optimise_segment_groups: every group loses duplicate includes and the
\* direct members its includes already provide; what the group resolves to
\* is left as it was
IncludedSegments(groups, g) ==
    UNION {get_all_segments_in_group(groups, g.includes[k], Len(groups)) :
               k \in 1..Len(g.includes)}

RECURSIVE Dedup(_)
Dedup(s) ==
    IF Len(s) = 0 THEN <<>>
    ELSE LET front == Dedup(SubSeq(s, 1, Len(s) - 1))
             last == s[Len(s)]
         IN  IF \E k \in 1..Len(front) : front[k] = last THEN front
             ELSE Append(front, last)

optimise_segment_groups(groups) ==
    [k \in 1..Len(groups) |->
        [groups[k] EXCEPT !.members = @ \ IncludedSegments(groups, groups[k]),
                          !.includes = Dedup(@)]]

\* Cell.reorder_segment_groups: the default groups move to the end
IsDefaultGroup(g) == g.id \in {SOMA_GROUP, AXON_GROUP, DENDRITE_GROUP, ALL}

IsOtherGroup(g) == ~IsDefaultGroup(g)

IsSoma(g) == g.id = SOMA_GROUP

IsAxon(g) == g.id = AXON_GROUP

IsDendrite(g) == g.id = DENDRITE_GROUP

IsAll(g) == g.id = ALL

reorder_segment_groups(groups) ==
    SelectSeq(groups, IsOtherGroup) \o SelectSeq(groups, IsSoma)
        \o SelectSeq(groups, IsAxon) \o SelectSeq(groups, IsDendrite)
        \o SelectSeq(groups, IsAll)

(* ------------------------- the biophysics script ----------------------- *)
\* One record per statement of lines 117-347, in source order.
Stmt(op, type, id, chan, cond, erev, group, ion, file, validate) ==
    [op |-> op, type |-> type, id |-> id, ion_channel |-> chan,
     cond_density |-> cond, erev |-> erev, group |-> group, ion |-> ion,
     file |-> file, validate |-> validate]

\* cell.add_channel_density(...)
CD(id, chan, cond, erev, group, ion, file) ==
    Stmt("add_channel_density", "ChannelDensity", id, chan, cond, erev, group,
         ion, file, TRUE)

\* cell.add_channel_density_v(type, ...)
CDV(type, id, chan, cond, erev, group, ion, file, validate) ==
    Stmt("add_channel_density_v", type, id, chan, cond, erev, group, ion, file,
         validate)

\* statements that take a single literal (kept in cond_density) or none
Simple(op, value, group, validate) ==
    Stmt(op, "", "", "", value, "", group, "", "", validate)

NOGROUP == <<>>

Ih_apical_value == "5.135E-01 * ((2.087 * exp( 3.6161 * (p/1000))) - 0.8696)"

Ca_LVA_apic_value == "1E8 * 0.00099839 * 1E-4 * (1 + (99 * (H(p - 360) * H(600 - p))))"

Ca_HVA_apic_value == "1E8 * 5.6938e-09 * 1E-4 * (1 + (9 * (H(p - 360) * H(600 - p))))"

Biophys ==
    << Simple("add_include", "channels/CaDynamics_E2_NML2.nml", NOGROUP, FALSE),
       Simple("add_include",
              "channels/CaDynamics_E2_NML2__decay460__gamma5_01Emin4.nml",
              NOGROUP, FALSE),
       CD("pas", "pas", "1.75E-5 S_per_cm2", "-84.395 mV", ALL, "non_specific",
          "channels/pas.channel.nml"),
       Simple("set_resistivity", "0.49573 kohm_cm", ALL, TRUE),
       Simple("set_specific_capacitance", "1.5967 uF_per_cm2", ALL, TRUE),
       Simple("set_init_memb_potential", "-80mV", ALL, TRUE),
       Simple("set_specific_capacitance", "1 uF_per_cm2", SOMA_GROUP, TRUE),
       CD("SK_E2_somatic", "SK_E2", "2.4536e-09 S_per_cm2", "-77 mV", SOMA_GROUP,
          "k", "channels/SK_E2.channel.nml"),
       CD("SKv3_1_somatic", "SKv3_1", "0.04 S_per_cm2", "-77 mV", SOMA_GROUP,
          "k", "channels/SKv3_1.channel.nml"),
       CD("K_Tst_somatic", "K_Tst", "2e-05 S_per_cm2", "-77 mV", SOMA_GROUP,
          "k", "channels/K_Tst.channel.nml"),
       CD("K_Pst_somatic", "K_Pst", "0.065 S_per_cm2", "-77 mV", SOMA_GROUP,
          "k", "channels/K_Pst.channel.nml"),
       CD("Ih_somatic", "Ih", "5.135E-05 S_per_cm2", "-49.85 mV", SOMA_GROUP,
          "hcn", "channels/Ih.channel.nml"),
       CD("NaTa_t_somatic", "NaTa_t", "2.1 S_per_cm2", "50 mV", SOMA_GROUP,
          "na", "channels/NaTa_t.channel.nml"),
       CD("Nap_Et2_somatic", "Nap_Et2", "1E-6 S_per_cm2", "50 mV", SOMA_GROUP,
          "na", "channels/Nap_Et2.channel.nml"),
       Stmt("add_intracellular_property", "Species", "ca",
            "CaDynamics_E2_NML2__decay460__gamma5_01Emin4",
            "5.0E-11 mol_per_cm3", "2.0E-6 mol_per_cm3", SOMA_GROUP, "ca", "",
            FALSE),
       CDV("ChannelDensityNernst", "Ca_HVA_somatic", "Ca_HVA",
           "5.6938e-09 S_per_cm2", "", SOMA_GROUP, "ca",
           "channels/Ca_HVA.channel.nml", TRUE),
       CDV("ChannelDensityNernst", "Ca_LVAst_somatic", "Ca_LVAst",
           "0.00099839 S_per_cm2", "", SOMA_GROUP, "ca",
           "channels/Ca_LVAst.channel.nml", TRUE),
       CD("SK_E2_apical", "SK_E2", "2.4536e-09 S_per_cm2", "-77 mV",
          APICAL_DENDRITE_GROUP, "k", "channels/SK_E2.channel.nml"),
       CD("SKv3_1_apical", "SKv3_1", "0.04 S_per_cm2", "-77 mV",
          APICAL_DENDRITE_GROUP, "k", "channels/SKv3_1.channel.nml"),
       CD("Im_apical", "Im", ".0002 S_per_cm2", "-77 mV",
          APICAL_DENDRITE_GROUP, "k", "channels/Im.channel.nml"),
       Stmt("sg_add_inhomogeneous_parameter", "InhomogeneousParameter",
            "PathLengthOverApicDends", "", "", "", NOGROUP, "", "", TRUE),
       CDV("ChannelDensityNonUniform", "Ih_apical", "Ih", "", "-49.85 mV",
           NOGROUP, "hcn", "", FALSE),
       Stmt("add_variable_parameter", "VariableParameter", "Ih_apical", "",
            "", "", NOGROUP, "", "", FALSE),
       Stmt("add_inhomogeneous_value", "InhomogeneousValue", "Ih_apical", "",
            Ih_apical_value, "", NOGROUP, "", "", TRUE),
       CDV("ChannelDensityNonUniformNernst", "Ca_LVA_apic", "Ca_LVAst", "", "",
           NOGROUP, "ca", "", FALSE),
       Stmt("add_variable_parameter", "VariableParameter", "Ca_LVA_apic", "",
            "", "", NOGROUP, "", "", FALSE),
       Stmt("add_inhomogeneous_value", "InhomogeneousValue", "Ca_LVA_apic", "",
            Ca_LVA_apic_value, "", NOGROUP, "", "", TRUE),
       CDV("ChannelDensityNonUniformNernst", "Ca_HVA_apic", "Ca_HVA", "", "",
           NOGROUP, "ca", "", FALSE),
       Stmt("add_variable_parameter", "VariableParameter", "Ca_HVA_apic", "",
            "", "", NOGROUP, "", "", FALSE),
       Stmt("add_inhomogeneous_value", "InhomogeneousValue", "Ca_HVA_apic", "",
            Ca_HVA_apic_value, "", NOGROUP, "", "", TRUE),
       CD("NaTa_t_apical", "NaTa_t", "0.001 S_per_cm2", "50 mV",
          APICAL_DENDRITE_GROUP, "na", "channels/NaTa_t.channel.nml"),
       CD("Ih_basal", "Ih", "5.135E-05 S_per_cm2", "-49.85 mV",
          BASAL_DENDRITE_GROUP, "hcn", "channels/Ih.channel.nml") >>

(* ------------------------------- state --------------------------------- *)
VARIABLES
    infile,           \* <cellname>.morph.cell.nml: [ok, groups]
    outfile,          \* <cellname>.cell.nml: ABSENT or <<the written document>>
    pc,               \* position in post_process_cell
    err,              \* the exception that ended the run, "" if none
    cell_id,          \* cell.id, "" while no cell is in memory
    segment_groups,   \* cell.morphology.segment_groups
    i,                \* position of the for loop in segment_groups
    sg,               \* the loop variable, <<>> while unbound
    k,                \* next statement of Biophys
    includes,         \* celldoc.includes (hrefs)
    channel_densities, \* the membrane properties' channel density descriptors
    species,          \* the intracellular properties' Species
    passive,          \* resistivity, capacitance, initial potential
    inhomogeneous_parameters, \* [group, id] put on segment groups
    p,                \* path length at which the expressions are evaluated
    g_lva,            \* <<Ca_LVA_apic conductance at p>>, <<>> before evaluation
    g_hva             \* <<Ca_HVA_apic conductance at p>>, <<>> before evaluation

vars == <<infile, outfile, pc, err, cell_id, segment_groups, i, sg, k, includes,
          channel_densities, species, passive, inhomogeneous_parameters,
          p, g_lva, g_hva>>

docvars == <<includes, channel_densities, species, passive,
             inhomogeneous_parameters>>

evalvars == <<p, g_lva, g_hva>>

\* no output file on disk
ABSENT == <<>>

cellname == "HL5PC"

(* ------------------------------- inputs -------------------------------- *)
\* filament indices of the input files: one per table, one in two tables,
\* one in none
SampleIndices == {0, 2, 7, 8, 12, 13}

FilamentGroups ==
    {[id |-> FilamentId(n), members |-> {n}, includes |-> <<>>] :
        n \in SampleIndices}

\* ids that start with "filament" but lack the index field, or carry a
\* non-integer one
ShortId == FILAMENT \o <<US>> \o DOCID

WordId == FILAMENT \o <<US>> \o DOCID \o <<US, "x">>

MalformedGroups ==
    {[id |-> ShortId, members |-> {300}, includes |-> <<>>],
     [id |-> WordId, members |-> {301}, includes |-> <<>>]}

\* groups a morphology file may already define
NamedGroups ==
    {[id |-> DENDRITE_GROUP, members |-> m, includes |-> inc] :
        m \in {{}, {99}}, inc \in {<<>>, <<FilamentId(0)>>}}
    \cup {[id |-> APICAL_DENDRITE_GROUP, members |-> {}, includes |-> <<>>],
          [id |-> ALL, members |-> {}, includes |-> <<>>]}

GroupPool == FilamentGroups \cup MalformedGroups \cup NamedGroups

\* group lists of a schema-valid file: ids unique, includes resolvable
WellFormed(groups) ==
    /\ \A a, b \in 1..Len(groups) : groups[a].id = groups[b].id => a = b
    /\ \A a \in 1..Len(groups) : \A j \in 1..Len(groups[a].includes) :
           HasGroup(groups, groups[a].includes[j])

InputFiles ==
    {[ok |-> FALSE, groups |-> <<>>]} \cup
    {[ok |-> TRUE, groups |-> gs] :
        gs \in {s \in UNION {[1..n -> GroupPool] : n \in 0..MaxGroups} :
                   WellFormed(s)}}

Init ==
    /\ infile \in InputFiles
    /\ outfile = ABSENT
    /\ pc = "read"
    /\ err = ""
    /\ cell_id = ""
    /\ segment_groups = <<>>
    /\ i = 1
    /\ sg = <<>>
    /\ k = 1
    /\ includes = <<>>
    /\ channel_densities = <<>>
    /\ species = <<>>
    /\ passive = <<>>
    /\ inhomogeneous_parameters = <<>>
    /\ p = 0
    /\ g_lva = <<>>
    /\ g_hva = <<>>

(* --------------------- loading and classification ---------------------- *)
\* lines 30-36: read_neuroml2_file raises on a missing or unparseable file
Read ==
    /\ pc = "read"
    /\ IF infile.ok
       THEN /\ cell_id' = cellname
            /\ segment_groups' = infile.groups
            /\ pc' = "setup_default"
            /\ err' = err
       ELSE /\ pc' = "aborted"
            /\ err' = "load"
            /\ UNCHANGED <<cell_id, segment_groups>>
    /\ UNCHANGED <<infile, outfile, i, sg, k, docvars, evalvars>>

\* lines 39-47
setup_default_segment_groups(groups) ==
    add_segment_group(
        add_segment_group(
            add_segment_group(add_segment_group(groups, ALL), SOMA_GROUP),
            DENDRITE_GROUP),
        AXON_GROUP)

SetupDefault ==
    /\ pc = "setup_default"
    /\ segment_groups' = setup_default_segment_groups(segment_groups)
    /\ pc' = "add_basal"
    /\ UNCHANGED <<infile, outfile, err, cell_id, i, sg, k, docvars, evalvars>>

\* lines 50-54
AddBasal ==
    /\ pc = "add_basal"
    /\ segment_groups' = add_segment_group(segment_groups, BASAL_DENDRITE_GROUP)
    /\ pc' = "add_apical"
    /\ UNCHANGED <<infile, outfile, err, cell_id, i, sg, k, docvars, evalvars>>

\* lines 55-59
AddApical ==
    /\ pc = "add_apical"
    /\ segment_groups' = add_segment_group(segment_groups, APICAL_DENDRITE_GROUP)
    /\ pc' = "for"
    /\ UNCHANGED <<infile, outfile, err, cell_id, i, sg, k, docvars, evalvars>>

\* the loop without the prefix test of line 95
IsFilamentGroup_any(gid) == TRUE

\* line 95
IsFilamentGroup(gid) == startswith(gid, FILAMENT)

\* lines 97-104: the four membership tests, in source order
Classify(groups, gid, idx) ==
    LET g1 == IF idx \in soma_segs THEN AddInclude(groups, SOMA_GROUP, gid)
              ELSE groups
        g2 == IF idx \in axonal_segs THEN AddInclude(g1, AXON_GROUP, gid)
              ELSE g1
        g3 == IF idx \in apical_segs
              THEN AddInclude(g2, APICAL_DENDRITE_GROUP, gid) ELSE g2
        g4 == IF idx \in basal_segs
              THEN AddInclude(g3, BASAL_DENDRITE_GROUP, gid) ELSE g3
    IN  g4

\* lines 92-104: one iteration of the for loop
LoopBody ==
    /\ pc = "for"
    /\ i <= Len(segment_groups)
    /\ LET gid == segment_groups[i].id
       IN  /\ sg' = gid
           /\ IF ~IsFilamentGroup(gid)
              THEN /\ i' = i + 1
                   /\ UNCHANGED <<segment_groups, pc, err>>
              ELSE IF Len(split(gid)) < 3
              THEN /\ pc' = "aborted"
                   /\ err' = "IndexError"
                   /\ UNCHANGED <<segment_groups, i>>
              ELSE IF ~int_ok(split(gid)[3])
              THEN /\ pc' = "aborted"
                   /\ err' = "ValueError"
                   /\ UNCHANGED <<segment_groups, i>>
              ELSE /\ segment_groups' =
                          Classify(segment_groups, gid, int(split(gid)[3]))
                   /\ i' = i + 1
                   /\ UNCHANGED <<pc, err>>
    /\ UNCHANGED <<infile, outfile, cell_id, k, docvars, evalvars>>

\* the for loop is exhausted; sg keeps its last value
LoopExit ==
    /\ pc = "for"
    /\ i > Len(segment_groups)
    /\ pc' = "dendrite"
    /\ UNCHANGED <<infile, outfile, err, cell_id, segment_groups, i, sg, k,
                   docvars, evalvars>>

\* lines 106-108
ResetDendrite ==
    /\ pc = "dendrite"
    /\ LET d == GroupIndex(segment_groups, DENDRITE_GROUP)
       IN  segment_groups' =
               [segment_groups EXCEPT
                   ![d].includes = <<APICAL_DENDRITE_GROUP, BASAL_DENDRITE_GROUP>>]
    /\ pc' = "optimise"
    /\ UNCHANGED <<infile, outfile, err, cell_id, i, sg, k, docvars, evalvars>>

\* line 111
Optimise ==
    /\ pc = "optimise"
    /\ segment_groups' = optimise_segment_groups(segment_groups)
    /\ pc' = "reorder"
    /\ UNCHANGED <<infile, outfile, err, cell_id, i, sg, k, docvars, evalvars>>

\* line 113
Reorder ==
    /\ pc = "reorder"
    /\ segment_groups' = reorder_segment_groups(segment_groups)
    /\ pc' = "biophys"
    /\ UNCHANGED <<infile, outfile, err, cell_id, i, sg, k, docvars, evalvars>>

(* ----------------------------- biophysics ------------------------------ *)
AtStmt(op) ==
    /\ pc = "biophys"
    /\ k <= Len(Biophys)
    /\ Biophys[k].op = op

\* the descriptor a statement constructs
Descriptor(st) ==
    [type |-> st.type, id |-> st.id, ion_channel |-> st.ion_channel,
     cond_density |-> st.cond_density, erev |-> st.erev,
     segment_groups |-> st.group, ion |-> st.ion, value |-> ""]

InSeq(s, x) == \E n \in 1..Len(s) : s[n] = x

\* the membership test of the registration turned round
RegisterChannelFile_inverted(incs, file) ==
    IF file = "" \/ ~InSeq(incs, file) THEN incs ELSE Append(incs, file)

\* add_channel_density / add_channel_density_v: the channel file becomes an
\* include of the document unless none is given or it is one already
RegisterChannelFile(incs, file) ==
    IF file = "" \/ InSeq(incs, file) THEN incs ELSE Append(incs, file)

\* a descriptor list keyed by channel: a new descriptor takes the place of an
\* earlier one for the same channel
AttachDescriptor_keyed(cds, st) ==
    IF \E n \in 1..Len(cds) : cds[n].ion_channel = st.ion_channel
    THEN [n \in 1..Len(cds) |->
             IF cds[n].ion_channel = st.ion_channel THEN Descriptor(st)
             ELSE cds[n]]
    ELSE Append(cds, Descriptor(st))

\* add_channel_density / add_channel_density_v: the new descriptor joins the
\* membrane properties
AttachDescriptor(cds, st) == Append(cds, Descriptor(st))

\* lines 117-118
AddIncludeType ==
    /\ AtStmt("add_include")
    /\ includes' = Append(includes, Biophys[k].cond_density)
    /\ k' = k + 1
    /\ UNCHANGED <<infile, outfile, pc, err, cell_id, segment_groups, i, sg,
                   channel_densities, species, passive,
                   inhomogeneous_parameters, evalvars>>

\* lines 120-127, 136-193, 226-249, 330-347
AddChannelDensity ==
    /\ AtStmt("add_channel_density")
    /\ channel_densities' = AttachDescriptor(channel_densities, Biophys[k])
    /\ includes' = RegisterChannelFile(includes, Biophys[k].file)
    /\ k' = k + 1
    /\ UNCHANGED <<infile, outfile, pc, err, cell_id, segment_groups, i, sg,
                   species, passive, inhomogeneous_parameters, evalvars>>

\* lines 205-222, 260-268, 283-290, 306-313
AddChannelDensityV ==
    /\ AtStmt("add_channel_density_v")
    /\ channel_densities' = AttachDescriptor(channel_densities, Biophys[k])
    /\ includes' = RegisterChannelFile(includes, Biophys[k].file)
    /\ k' = k + 1
    /\ UNCHANGED <<infile, outfile, pc, err, cell_id, segment_groups, i, sg,
                   species, passive, inhomogeneous_parameters, evalvars>>

PassiveProperty(st) ==
    [kind |-> st.op, value |-> st.cond_density, segment_groups |-> st.group]

SetPassive(op) ==
    /\ AtStmt(op)
    /\ passive' = Append(passive, PassiveProperty(Biophys[k]))
    /\ k' = k + 1
    /\ UNCHANGED <<infile, outfile, pc, err, cell_id, segment_groups, i, sg,
                   includes, channel_densities, species,
                   inhomogeneous_parameters, evalvars>>

\* line 128
SetResistivity == SetPassive("set_resistivity")

\* lines 129, 133
SetSpecificCapacitance == SetPassive("set_specific_capacitance")

\* line 130
SetInitMembPotential == SetPassive("set_init_memb_potential")

\* lines 197-203
AddIntracellularProperty ==
    /\ AtStmt("add_intracellular_property")
    /\ species' = Append(species,
           [id |-> Biophys[k].id, ion |-> Biophys[k].ion,
            concentration_model |-> Biophys[k].ion_channel,
            initial_concentration |-> Biophys[k].cond_density,
            initial_ext_concentration |-> Biophys[k].erev,
            segment_groups |-> Biophys[k].group])
    /\ k' = k + 1
    /\ UNCHANGED <<infile, outfile, pc, err, cell_id, segment_groups, i, sg,
                   includes, channel_densities, passive,
                   inhomogeneous_parameters, evalvars>>

\* the group the non-uniform statements address: the loop variable sg
NonUniformTarget == sg

\* lines 250-258
SgAddInhomogeneousParameter ==
    /\ AtStmt("sg_add_inhomogeneous_parameter")
    /\ inhomogeneous_parameters' =
           Append(inhomogeneous_parameters,
                  [segment_groups |-> NonUniformTarget, id |-> Biophys[k].id])
    /\ k' = k + 1
    /\ UNCHANGED <<infile, outfile, pc, err, cell_id, segment_groups, i, sg,
                   includes, channel_densities, species, passive, evalvars>>

\* lines 269-274, 291-296, 314-319: the VariableParameter of the descriptor
\* built by the statement before carries segment_groups=sg.id
AddVariableParameter ==
    /\ AtStmt("add_variable_parameter")
    /\ channel_densities' =
           [n \in 1..Len(channel_densities) |->
               IF channel_densities[n].id = Biophys[k].id
               THEN [channel_densities[n] EXCEPT
                        !.segment_groups = NonUniformTarget]
               ELSE channel_densities[n]]
    /\ k' = k + 1
    /\ UNCHANGED <<infile, outfile, pc, err, cell_id, segment_groups, i, sg,
                   includes, species, passive, inhomogeneous_parameters,
                   evalvars>>

\* lines 277-281, 301-305, 324-328
AddInhomogeneousValue ==
    /\ AtStmt("add_inhomogeneous_value")
    /\ channel_densities' =
           [n \in 1..Len(channel_densities) |->
               IF channel_densities[n].id = Biophys[k].id
               THEN [channel_densities[n] EXCEPT
                        !.value = Biophys[k].cond_density]
               ELSE channel_densities[n]]
    /\ k' = k + 1
    /\ UNCHANGED <<infile, outfile, pc, err, cell_id, segment_groups, i, sg,
                   includes, species, passive, inhomogeneous_parameters,
                   evalvars>>

\* a rejection handled by writing what has been built so far
Reject_writing ==
    /\ pc = "biophys"
    /\ k <= Len(Biophys)
    /\ Biophys[k].validate
    /\ pc' = "aborted"
    /\ err' = "schema"
    /\ outfile' = <<[id |-> cell_id, segment_groups |-> segment_groups,
                     includes |-> includes,
                     channel_densities |-> channel_densities,
                     species |-> species, passive |-> passive,
                     inhomogeneous_parameters |-> inhomogeneous_parameters]>>
    /\ UNCHANGED <<infile, cell_id, segment_groups, i, sg, k, docvars, evalvars>>

\* a validated construction is rejected by the library: the exception leaves
\* post_process_cell, which has no handler
Reject ==
    /\ pc = "biophys"
    /\ k <= Len(Biophys)
    /\ Biophys[k].validate
    /\ pc' = "aborted"
    /\ err' = "schema"
    /\ UNCHANGED <<infile, outfile, cell_id, segment_groups, i, sg, k, docvars,
                   evalvars>>

\* the document as write_neuroml2_file serialises it
Document ==
    [id |-> cell_id, segment_groups |-> segment_groups, includes |-> includes,
     channel_densities |-> channel_densities, species |-> species,
     passive |-> passive,
     inhomogeneous_parameters |-> inhomogeneous_parameters]

\* the statements of post_process_cell after which the file is written
WritePoint == Len(Biophys) + 1

\* line 352
Write ==
    /\ pc = "biophys"
    /\ k = WritePoint
    /\ outfile' = <<Document>>
    /\ pc' = "done"
    /\ UNCHANGED <<infile, err, cell_id, segment_groups, i, sg, k, docvars,
                   evalvars>>

Next ==
    \/ Read
    \/ SetupDefault
    \/ AddBasal
    \/ AddApical
    \/ LoopBody
    \/ LoopExit
    \/ ResetDendrite
    \/ Optimise
    \/ Reorder
    \/ AddIncludeType
    \/ AddChannelDensity
    \/ AddChannelDensityV
    \/ SetResistivity
    \/ SetSpecificCapacitance
    \/ SetInitMembPotential
    \/ AddIntracellularProperty
    \/ SgAddInhomogeneousParameter
    \/ AddVariableParameter
    \/ AddInhomogeneousValue
    \/ Reject
    \/ Write

Spec == Init /\ [][Next]_vars

(* ------------------ the attached calcium expressions ------------------- *)
\* the Heaviside function of the expressions: 1 on a non-negative argument
H(x) == IF x >= 0 THEN 1 ELSE 0

\* 1E8 * 0.00099839 * 1E-4, in units of 1E-4 S_per_m2
LVA_BASE == 99839

\* 1E8 * 5.6938e-09 * 1E-4, in units of 1E-9 S_per_m2
HVA_BASE == 56938

\* the band of line 304 with its upper edge left out
Ca_LVA_apic_open(x) == LVA_BASE * (1 + (99 * (H(x - 360) * H(599 - x))))

\* line 304, in units of 1E-4 S_per_m2
Ca_LVA_apic(x) == LVA_BASE * (1 + (99 * (H(x - 360) * H(600 - x))))

\* line 327, in units of 1E-9 S_per_m2
Ca_HVA_apic(x) == HVA_BASE * (1 + (9 * (H(x - 360) * H(600 - x))))

InitEval ==
    /\ infile = [ok |-> FALSE, groups |-> <<>>]
    /\ outfile = ABSENT
    /\ pc = "eval"
    /\ err = ""
    /\ cell_id = ""
    /\ segment_groups = <<>>
    /\ i = 1
    /\ sg = <<>>
    /\ k = 1
    /\ includes = <<>>
    /\ channel_densities = <<>>
    /\ species = <<>>
    /\ passive = <<>>
    /\ inhomogeneous_parameters = <<>>
    /\ p \in 0..MaxP
    /\ g_lva = <<>>
    /\ g_hva = <<>>

\* the exporter evaluates the Ca_LVA_apic expression at a segment's path length
EvalLVA ==
    /\ pc = "eval"
    /\ g_lva = <<>>
    /\ g_lva' = <<Ca_LVA_apic(p)>>
    /\ UNCHANGED <<infile, outfile, pc, err, cell_id, segment_groups, i, sg, k,
                   docvars, p, g_hva>>

\* the exporter evaluates the Ca_HVA_apic expression at a segment's path length
EvalHVA ==
    /\ pc = "eval"
    /\ g_hva = <<>>
    /\ g_hva' = <<Ca_HVA_apic(p)>>
    /\ UNCHANGED <<infile, outfile, pc, err, cell_id, segment_groups, i, sg, k,
                   docvars, p, g_lva>>

NextEval == EvalLVA \/ EvalHVA

SpecEval == InitEval /\ [][NextEval]_vars

(* ------------------------------ properties ----------------------------- *)
PrimaryGroups ==
    {SOMA_GROUP, AXON_GROUP, APICAL_DENDRITE_GROUP, BASAL_DENDRITE_GROUP}

\* the primary groups that list fid among their includes
PrimaryGroupsIncluding(fid) ==
    {G \in PrimaryGroups :
        /\ HasGroup(segment_groups, G)
        /\ InSeq(segment_groups[GroupIndex(segment_groups, G)].includes, fid)}

\* ids of the form filament_<docid>_<index> present in the morphology
FilamentIdsPresent ==
    {FilamentId(m) : m \in 0..LastIndex} \cap
    {segment_groups[n].id : n \in 1..Len(segment_groups)}

\* C1: when the classification loop has finished, every group
\* filament_<docid>_<index> is an include of at most one of soma_group,
\* axon_group, apical_dendrite_group, basal_dendrite_group.
C1_AtMostOnePrimaryGroup ==
    pc = "dendrite" =>
        \A fid \in FilamentIdsPresent :
            Cardinality(PrimaryGroupsIncluding(fid)) <= 1

\* C8: when the classification loop has finished, every group
\* filament_<docid>_<index> with index in 0..210 is an include of at least
\* one of soma_group, axon_group, apical_dendrite_group, basal_dendrite_group.
C8_AtLeastOnePrimaryGroup ==
    pc = "dendrite" =>
        \A fid \in FilamentIdsPresent :
            Cardinality(PrimaryGroupsIncluding(fid)) >= 1

\* C2: in the written document the segments dendrite_group resolves to are
\* exactly those of apical_dendrite_group together with those of
\* basal_dendrite_group.
C2_DendriteIsApicalPlusBasal ==
    outfile # ABSENT =>
        Resolved(outfile[1].segment_groups, DENDRITE_GROUP) =
            Resolved(outfile[1].segment_groups, APICAL_DENDRITE_GROUP)
                \cup Resolved(outfile[1].segment_groups, BASAL_DENDRITE_GROUP)

NonUniformTypes == {"ChannelDensityNonUniform", "ChannelDensityNonUniformNernst"}

\* C3: in the written document PathLengthOverApicDends and the three
\* non-uniform descriptors sit on apical_dendrite_group and on no other group.
C3_NonUniformOnApicalOnly ==
    outfile # ABSENT =>
        /\ \A n \in 1..Len(outfile[1].inhomogeneous_parameters) :
               outfile[1].inhomogeneous_parameters[n].segment_groups =
                   APICAL_DENDRITE_GROUP
        /\ \A n \in 1..Len(outfile[1].channel_densities) :
               outfile[1].channel_densities[n].type \in NonUniformTypes =>
                   outfile[1].channel_densities[n].segment_groups =
                       APICAL_DENDRITE_GROUP

InBand(x) == 360 <= x /\ x <= 600

\* C4: at every path length p in 0..MaxP the Ca_LVA_apic expression is 100
\* times its baseline for 360 <= p <= 600 and the baseline otherwise, and the
\* Ca_HVA_apic expression is 10 times its baseline for 360 <= p <= 600 and
\* the baseline otherwise.
C4_CalciumBand ==
    /\ g_lva # <<>> =>
           g_lva[1] = (IF InBand(p) THEN 100 * LVA_BASE ELSE LVA_BASE)
    /\ g_hva # <<>> =>
           g_hva[1] = (IF InBand(p) THEN 10 * HVA_BASE ELSE HVA_BASE)

\* both expressions evaluated on the upper edge of the band
C4_Witness ==
    /\ p = 600
    /\ g_lva = <<100 * LVA_BASE>>
    /\ g_hva = <<10 * HVA_BASE>>

\* the statements that make up the uniform catalogue
UniformCatalogue ==
    {Biophys[n] : n \in {m \in 1..Len(Biophys) :
                            Biophys[m].op = "add_channel_density"}}

\* positions of the uniform descriptors of a document for a (region, channel)
Lookup(doc, region, channel) ==
    {n \in 1..Len(doc.channel_densities) :
        /\ doc.channel_densities[n].type = "ChannelDensity"
        /\ doc.channel_densities[n].segment_groups = region
        /\ doc.channel_densities[n].ion_channel = channel}

\* C5: in the written document every (region, channel) pair of the uniform
\* catalogue has exactly one uniform descriptor, carrying the conductance and
\* the reversal potential literals it was attached with; soma NaTa_t reads
\* "2.1 S_per_cm2" and "50 mV".
C5_UniformRoundTrip ==
    outfile # ABSENT =>
        /\ \A st \in UniformCatalogue :
               /\ Cardinality(Lookup(outfile[1], st.group, st.ion_channel)) = 1
               /\ \A n \in Lookup(outfile[1], st.group, st.ion_channel) :
                      /\ outfile[1].channel_densities[n].cond_density = st.cond_density
                      /\ outfile[1].channel_densities[n].erev = st.erev
                      /\ outfile[1].channel_densities[n].id = st.id
        /\ \A n \in Lookup(outfile[1], SOMA_GROUP, "NaTa_t") :
               /\ outfile[1].channel_densities[n].cond_density = "2.1 S_per_cm2"
               /\ outfile[1].channel_densities[n].erev = "50 mV"

\* a written document in which the soma NaTa_t descriptor is found
C5_Witness ==
    /\ outfile # ABSENT
    /\ Lookup(outfile[1], SOMA_GROUP, "NaTa_t") # {}
    /\ Lookup(outfile[1], BASAL_DENDRITE_GROUP, "Ih") # {}

\* C6: the output file exists only once every statement before line 352 has
\* run without error; a run that aborted has written nothing, and a run whose
\* load failed has no cell and no document content in memory.
C6_WriteIsLast ==
    /\ outfile # ABSENT =>
           /\ pc = "done"
           /\ err = ""
           /\ k = Len(Biophys) + 1
           /\ Len(outfile[1].channel_densities) =
                  Cardinality({n \in 1..Len(Biophys) :
                      Biophys[n].op \in {"add_channel_density",
                                         "add_channel_density_v"}})
    /\ pc = "aborted" => err # "" /\ outfile = ABSENT
    /\ err = "load" =>
           /\ cell_id = ""
           /\ segment_groups = <<>>
           /\ includes = <<>>
           /\ channel_densities = <<>>
           /\ species = <<>>
           /\ passive = <<>>
           /\ inhomogeneous_parameters = <<>>

\* a run the library ended in the middle of the attachments
C6_Witness ==
    /\ pc = "aborted"
    /\ err = "schema"
    /\ Len(channel_densities) > 0
    /\ outfile = ABSENT

ChannelFile(channel) == "channels/" \o channel \o ".channel.nml"

\* C7: in the written document the file channels/<ion_channel>.channel.nml of
\* every channel density descriptor, uniform, Nernst or non-uniform, is among
\* the includes of the document.
C7_ChannelFilesIncluded ==
    outfile # ABSENT =>
        \A n \in 1..Len(outfile[1].channel_densities) :
            InSeq(outfile[1].includes,
                  ChannelFile(outfile[1].channel_densities[n].ion_channel))

\* a written document holding the three descriptors attached without a file
C7_Witness ==
    /\ outfile # ABSENT
    /\ \A d \in {"Ih_apical", "Ca_LVA_apic", "Ca_HVA_apic"} :
           \E n \in 1..Len(outfile[1].channel_densities) :
               outfile[1].channel_densities[n].id = d

\* an id has the prefix "filament"
HasFilamentPrefix(gid) ==
    /\ Len(gid) >= 8
    /\ \A n \in 1..8 : gid[n] = FILAMENT[n]

\* an id follows the convention filament_<docid>_<integer index>
MatchesConvention(gid) ==
    /\ Len(split(gid)) = 3
    /\ split(gid)[1] = FILAMENT
    /\ Len(split(gid)[2]) > 0
    /\ int_ok(split(gid)[3])

\* the for loop passes over the current group without effect
SilentlySkipped ==
    /\ segment_groups' = segment_groups
    /\ pc' = "for"
    /\ i' = i + 1
    /\ err' = ""

\* the for loop ends the run on the current group
Aborts ==
    /\ pc' = "aborted"
    /\ err' \in {"IndexError", "ValueError"}
    /\ segment_groups' = segment_groups
    /\ outfile' = ABSENT

\* C9 as stated: every id that does not follow the convention
\* filament_<docid>_<integer index> is passed over without effect or error.
C9_EveryNonMatchingSkipped ==
    [][(pc = "for" /\ i <= Len(segment_groups)
           /\ ~MatchesConvention(segment_groups[i].id)) => SilentlySkipped]_vars

\* C9 amended: an id that does not start with "filament" is passed over
\* without effect or error; an id that starts with "filament" and has fewer
\* than three "_"-separated fields or a third field that is not an integer
\* ends the run with an error, no group changed and nothing written.
C9_SkipOrAbort ==
    [][(pc = "for" /\ i <= Len(segment_groups)) =>
           /\ ~HasFilamentPrefix(segment_groups[i].id) => SilentlySkipped
           /\ (/\ HasFilamentPrefix(segment_groups[i].id)
               /\ \/ Len(split(segment_groups[i].id)) < 3
                  \/ ~int_ok(split(segment_groups[i].id)[3]))
              => Aborts]_vars

\* the loop has passed over a group that is not a filament and goes on
C9_Witness ==
    /\ pc = "for"
    /\ i > 1
    /\ i <= Len(segment_groups)
    /\ sg = ALL
    /\ err = ""

CalciumNernstTypes == {"ChannelDensityNernst", "ChannelDensityNonUniformNernst"}

\* a calcium Species of the document covers every segment of the group
CoveredBySpecies(doc, gid) ==
    \E n \in 1..Len(doc.species) :
        /\ doc.species[n].ion = "ca"
        /\ \/ doc.species[n].segment_groups = gid
           \/ Resolved(doc.segment_groups, gid) \subseteq
                  Resolved(doc.segment_groups, doc.species[n].segment_groups)

\* C10: in the written document the group of every calcium Nernst descriptor
\* carries a calcium Species, on itself or on a group that contains it.
C10_NernstHasSpecies ==
    outfile # ABSENT =>
        \A n \in 1..Len(outfile[1].channel_densities) :
            (/\ outfile[1].channel_densities[n].type \in CalciumNernstTypes
             /\ outfile[1].channel_densities[n].ion = "ca")
            => CoveredBySpecies(outfile[1], outfile[1].channel_densities[n].segment_groups)

====
